---- MODULE Spec2Model ----
(***************************************************************************)
(* Model of the AI-Powered-PR-Analyzer pipeline.                           *)
(*                                                                         *)
(*   Spec      AzureDevOpsClient.get_pr_added_lines_only: the two fetches  *)
(*             that precede the loop, one action per loop iteration (by    *)
(*             kind of change) and the return.                             *)
(*   DiffSpec  the edit branch of the same method on already split line    *)
(*             sequences: difflib.Differ().compare and the '+ ' filter.    *)
(*   ItemSpec  the same method on a listing of one item, with every blob   *)
(*             content of up to MaxContentLen characters.                  *)
(*   RunSpec   main.py: construction of the WorkflowOrchestrator by the    *)
(*             __main__ block and WorkflowOrchestrator.run.                *)
(*   RerunSpec the same, started again and again in one working          *)
(*             directory.                                                  *)
(*   AdfSpec   DataFormatter._extract_text_from_adf on document trees.     *)
(*   FormatSpec  DataFormatter.generate_formatted_output, one action per   *)
(*             formatter it calls.                                         *)
(*   TruncateSpec  AIAnalyzer._truncate_text.                              *)
(*                                                                         *)
(* Text is a sequence of one-character strings.  Python's None is the      *)
(* value None below, which is no text.                                     *)
(***************************************************************************)
EXTENDS Integers, Sequences, FiniteSets, TLC

\* ------------------------------------------------------------------ bounds
\* Longest blob content drawn for the one-item listing of ItemSpec, in
\* characters.
MaxContentLen == 3
\* Longest changeset listing iterated by get_pr_added_lines_only in Spec.
MaxChanges == 3
\* Longest line sequence drawn for DiffSpec.
MaxLines == 4
\* Most nodes of an ADF document drawn for AdfSpec.
MaxNodes == 5
\* Longest commit identifier and longest commit list drawn for FormatSpec.
MaxIdLen == 10
MaxCommits == 2
\* format_commits: the length of a short commit id.
ShortIdLen == 8
\* Largest max_chars drawn for _truncate_text.
MaxLimit == 4

\* ------------------------------------------------------------------- text
\* Characters of blob contents: one ordinary character and the line break.
Chars == {"a", "\n"}

\* Python's None (no one-character string, so never a text).
None == <<"None">>

\* Texts of at most n characters.
TextsUpTo(n) == UNION {[1..k -> Chars] : k \in 0..n}

Contents == TextsUpTo(MaxContentLen)

\* The blob contents drawn for the items of a longer listing: an empty
\* blob, a blank line, one line, two lines.
ListedContents == {<<>>, <<"\n">>, <<"a">>, <<"a", "\n", "a">>}

\* Python truthiness of an optional str: None and '' are falsy.
Truthy(x) == x # None /\ x # <<>>

\* Faulty variant of SplitLines: str.split('\n'), which keeps the empty text
\* after a final line break (and gives [''] for the empty text).
RECURSIVE SplitKeepingFrom(_, _, _)
SplitKeepingFrom(s, i, cur) ==
    IF i > Len(s) THEN <<cur>>
    ELSE IF s[i] = "\n" THEN <<cur>> \o SplitKeepingFrom(s, i + 1, <<>>)
    ELSE SplitKeepingFrom(s, i + 1, Append(cur, s[i]))

SplitKeepingTail(s) == SplitKeepingFrom(s, 1, <<>>)

\* str.splitlines() by a left-to-right scan: a line ends at each line break;
\* a last line without a break is kept, an empty one after the last break is
\* not.  "\n" stands for every line boundary character.
RECURSIVE SplitFrom(_, _, _)
SplitFrom(s, i, cur) ==
    IF i > Len(s) THEN (IF cur = <<>> THEN <<>> ELSE <<cur>>)
    ELSE IF s[i] = "\n" THEN <<cur>> \o SplitFrom(s, i + 1, <<>>)
    ELSE SplitFrom(s, i + 1, Append(cur, s[i]))

SplitLines(s) == SplitFrom(s, 1, <<>>)

\* ---------------------------------------------------------------- difflib
\* Length of the common run of a and b ending at a[i], b[j] and staying
\* inside a[alo..], b[blo..] (find_longest_match's j2len).
RECURSIVE RunLen(_, _, _, _, _, _)
RunLen(a, b, i, j, alo, blo) ==
    IF i < alo \/ j < blo THEN 0
    ELSE IF a[i] # b[j] THEN 0
    ELSE 1 + RunLen(a, b, i - 1, j - 1, alo, blo)

\* SequenceMatcher.find_longest_match on a[alo..ahi], b[blo..bhi] (inclusive,
\* 1-based): <<i, j, k>> with a[i..i+k-1] = b[j..j+k-1], k largest, then i
\* smallest, then j smallest; k = 0 when nothing matches.  No line is junk
\* (Differ's linejunk is None) and the popularity heuristic needs 200 lines.
FindLongestMatch(a, b, alo, ahi, blo, bhi) ==
    LET ends == {p \in (alo..ahi) \X (blo..bhi) : a[p[1]] = b[p[2]]}
        blocks == {<<p[1] - RunLen(a, b, p[1], p[2], alo, blo) + 1,
                     p[2] - RunLen(a, b, p[1], p[2], alo, blo) + 1,
                     RunLen(a, b, p[1], p[2], alo, blo)>> : p \in ends}
    IN  IF blocks = {} THEN <<alo, blo, 0>>
        ELSE CHOOSE m \in blocks :
               \A o \in blocks :
                  \/ m[3] > o[3]
                  \/ m[3] = o[3] /\ m[1] < o[1]
                  \/ m[3] = o[3] /\ m[1] = o[1] /\ m[2] <= o[2]

\* SequenceMatcher.get_matching_blocks without its end sentinel: the longest
\* match, then the same to its left and to its right, in sequence order.
RECURSIVE MatchingBlocks(_, _, _, _, _, _)
MatchingBlocks(a, b, alo, ahi, blo, bhi) ==
    IF alo > ahi \/ blo > bhi THEN <<>>
    ELSE LET m == FindLongestMatch(a, b, alo, ahi, blo, bhi)
         IN  IF m[3] = 0 THEN <<>>
             ELSE MatchingBlocks(a, b, alo, m[1] - 1, blo, m[2] - 1)
                  \o <<m>>
                  \o MatchingBlocks(a, b, m[1] + m[3], ahi, m[2] + m[3], bhi)

\* Differ._dump: each line of x[lo..hi] behind a two-character tag.
Dump(tag, x, lo, hi) ==
    [k \in 1..(IF hi >= lo THEN hi - lo + 1 ELSE 0) |-> <<tag, " ">> \o x[lo + k - 1]]

\* The lines Differ.compare gives for the stretch a[alo..ahi], b[blo..bhi]
\* between two matching blocks (opcodes replace, delete, insert).  A replace
\* is written as _plain_replace writes it; _fancy_replace writes the same
\* '- ' and '+ ' lines, the '+ ' ones in the same order, with '? ' guide lines
\* among them.
Gap(a, b, alo, ahi, blo, bhi) ==
    IF bhi - blo < ahi - alo
    THEN Dump("+", b, blo, bhi) \o Dump("-", a, alo, ahi)
    ELSE Dump("-", a, alo, ahi) \o Dump("+", b, blo, bhi)

\* The opcodes of get_opcodes turned into lines, from position <<i, j>> on.
RECURSIVE Opcodes(_, _, _, _, _)
Opcodes(a, b, blocks, i, j) ==
    IF blocks = <<>> THEN Gap(a, b, i, Len(a), j, Len(b))
    ELSE LET m == Head(blocks)
         IN  Gap(a, b, i, m[1] - 1, j, m[2] - 1)
             \o Dump(" ", a, m[1], m[1] + m[3] - 1)
             \o Opcodes(a, b, Tail(blocks), m[1] + m[3], m[2] + m[3])

\* difflib.Differ().compare(a, b) as a list.
Compare(a, b) == Opcodes(a, b, MatchingBlocks(a, b, 1, Len(a), 1, Len(b)), 1, 1)

\* line.startswith('+ ')
StartsWithPlus(line) == Len(line) >= 2 /\ line[1] = "+" /\ line[2] = " "

\* [line[2:] for line in diff if line.startswith('+ ')]
RECURSIVE AddedOf(_)
AddedOf(d) ==
    IF d = <<>> THEN <<>>
    ELSE (IF StartsWithPlus(Head(d))
          THEN <<SubSeq(Head(d), 3, Len(Head(d)))>> ELSE <<>>)
         \o AddedOf(Tail(d))

\* ------------------------------------------------------------------ state
VARIABLES
    pc,                    \* position in get_pr_added_lines_only / DiffSpec
    pr_data,               \* get_pr_added_lines_only: pr_data
    diff_data,             \* get_pr_added_lines_only: diff_data
    change,                \* the loop's current change
    content,               \* add branch: content
    content_before,        \* edit branch: content_before
    content_after,         \* edit branch: content_after
    lines_before,          \* edit branch: lines_before
    lines_after,           \* edit branch: lines_after
    diff,                  \* edit branch: diff
    file_info,             \* the loop's current file_info
    files_with_additions,  \* files_with_additions
    processed,             \* the changes iterated so far, each with its outcome
    result,                \* what get_pr_added_lines_only returned
    run_pc,                \* position in main.py's __main__ block and run()
    config,                \* the WorkflowOrchestrator's constructor arguments
    env,                   \* what the environment offers each AI backend
    provider,              \* AIAnalyzer.provider (None: no AIAnalyzer built)
    disk,                  \* the files of the working directory
    issue_data,            \* run(): issue_data
    pr_files,              \* run(): pr_data, the result of fetch_pr_data
    documentation,         \* run(): documentation
    code_review,           \* run(): code_review
    ai_calls,              \* the prompts handed to _call_ai, in order
    messages,              \* what has been printed
    run_result,            \* what run() returned
    fmt_pc,                \* position in DataFormatter.generate_formatted_output
    self_issue_data,       \* DataFormatter.issue_data
    self_pr_data,          \* DataFormatter.pr_data
    self_pr_commits,       \* DataFormatter.pr_commits
    self_pr_files,         \* DataFormatter.pr_files
    self_pr_files_content, \* DataFormatter.pr_files_content
    formatted_data,        \* generate_formatted_output: formatted_data
    adf_doc,               \* _extract_text_from_adf: adf_doc
    text_parts,            \* _extract_text_from_adf: text_parts
    adf_text,              \* what _extract_text_from_adf returned
    arg_text,              \* _truncate_text: text
    arg_max_chars,         \* _truncate_text: max_chars
    truncated              \* what _truncate_text returned

azdo_vars == <<pc, pr_data, diff_data, change, content, content_before,
               content_after, lines_before, lines_after, diff, file_info,
               files_with_additions, processed, result>>

run_vars == <<run_pc, config, env, provider, disk, issue_data, pr_files,
              documentation, code_review, ai_calls, messages, run_result>>

fmt_vars == <<fmt_pc, self_issue_data, self_pr_data, self_pr_commits,
              self_pr_files, self_pr_files_content, formatted_data,
              adf_doc, text_parts, adf_text, arg_text, arg_max_chars,
              truncated>>

vars == <<azdo_vars, run_vars, fmt_vars>>

\* ------------------------------------------------- Azure DevOps responses
\* The object ids a changeset item carries (None when the key is absent).
ObjectId == <<"o">>
OriginalObjectId == <<"p">>

ChangeTypes == {"add", "edit", "delete", "rename"}

\* The change entries the listing may hold at position path; the position
\* stands for the item's path.
ChangesAt(path) ==
    [path : {path}, isFolder : BOOLEAN, changeType : ChangeTypes,
     objectId : {None, ObjectId}, originalObjectId : {None, OriginalObjectId}]

NoChange ==
    [path |-> 0, isFolder |-> FALSE, changeType |-> "",
     objectId |-> None, originalObjectId |-> None]

\* What requests.get may do for a blob whose text is one of texts: answer
\* 200 with the text, answer another status, or raise.
ResponsesOf(texts) ==
    [raised : {FALSE}, status_code : {200}, text : texts]
    \cup {[raised |-> FALSE, status_code |-> 404, text |-> <<>>],
          [raised |-> TRUE, status_code |-> 0, text |-> <<>>]}

\* No request is made for a blob the item's ids do not let the code fetch.
NotRequested == [raised |-> FALSE, status_code |-> 0, text |-> <<>>]

RequestsIf(fetch, texts) == IF fetch THEN ResponsesOf(texts) ELSE {NotRequested}

\* AzureDevOpsClient.get_file_content on that response.
get_file_content(response) ==
    IF response.raised THEN None
    ELSE IF response.status_code = 200 THEN response.text
    ELSE None

\* The pull request as get_pull_request returns it (branch names already
\* without 'refs/heads/').
PullRequest == [sourceRefName |-> "feature", targetRefName |-> "main"]
NoPullRequest == [sourceRefName |-> "", targetRefName |-> ""]

NoFileInfo == [path |-> 0, changeType |-> "", added_lines |-> <<>>]

\* file_info = {'path': ..., 'changeType': ..., 'added_lines': []}
NewFileInfo(c) == [path |-> c.path, changeType |-> c.changeType, added_lines |-> <<>>]

\* Faulty variants of AppendIfAdded: the test left out; the entry put first.
AppendAlways(files, info) == Append(files, info)

PrependIfAdded(files, info) ==
    IF info.added_lines # <<>> THEN <<info>> \o files ELSE files

\* if file_info['added_lines']: files_with_additions.append(file_info)
AppendIfAdded(files, info) ==
    IF info.added_lines # <<>> THEN Append(files, info) ELSE files

\* Faulty variant of EditDiff: a set difference, every line of after that
\* occurs nowhere in before marked '+ ' and every other line '  '.
SetDifferenceDiff(before, after) ==
    [k \in 1..Len(after) |->
        (IF \E i \in 1..Len(before) : before[i] = after[k]
         THEN <<" ", " ">> ELSE <<"+", " ">>) \o after[k]]

\* Faulty variant of EditAddedLines: the startswith('+ ') test left out.
AllLinesOf(d) == [k \in 1..Len(d) |-> SubSeq(d[k], 3, Len(d[k]))]

\* The edit branch's diff and filter on two line sequences.
EditDiff(before, after) == Compare(before, after)

EditAddedLines(d) == AddedOf(d)

NoResult == [value |-> "unset", files |-> <<>>, total |-> 0,
             source_branch |-> "", target_branch |-> ""]
NoneResult == [NoResult EXCEPT !.value = "None"]

\* Faulty variant of ResultOf: None once a content fetch has failed.
ResultUnlessFetchFailed(files, pr) ==
    IF \E k \in 1..Len(processed) : processed[k].fetch_failed
    THEN NoneResult
    ELSE [value |-> "dict", files |-> files, total |-> Len(files),
          source_branch |-> pr.sourceRefName, target_branch |-> pr.targetRefName]

\* The dictionary get_pr_added_lines_only returns.
ResultOf(files, pr) ==
    [value |-> "dict", files |-> files, total |-> Len(files),
     source_branch |-> pr.sourceRefName, target_branch |-> pr.targetRefName]

\* What one iteration leaves behind: the item's position, folder flag and
\* change type, whether a content fetch of it failed, and its added lines.
Outcome(c, failed, info) ==
    [path |-> c.path, isFolder |-> c.isFolder, changeType |-> c.changeType,
     fetch_failed |-> failed, added_lines |-> info.added_lines]

\* ---------------------------------------------- get_pr_added_lines_only
\* The method's locals before it starts at position p.
AzdoIdle(p) ==
    /\ pc = p
    /\ pr_data = NoPullRequest
    /\ diff_data = "unset"
    /\ change = NoChange
    /\ content = None
    /\ content_before = None
    /\ content_after = None
    /\ lines_before = <<>>
    /\ lines_after = <<>>
    /\ diff = <<>>
    /\ file_info = NoFileInfo
    /\ files_with_additions = <<>>
    /\ processed = <<>>
    /\ result = NoResult

\* ------------------------------------------------------------ main.py state
FileNames == {"issue_data.json", "pr_commits.json", "pr_files_content.json",
              "DOCUMENTATION.md", "CODE_REVIEW.md"}

\* The workflow before the __main__ block starts at position p.
RunIdle(p) ==
    /\ run_pc = p
    /\ config = [issue_key |-> None, generate_documentation |-> FALSE,
                 generate_code_review |-> FALSE,
                 code_review_prompt |-> None, documentation_prompt |-> None]
    /\ env = [claude |-> "no_key", openai |-> "no_key", ollama |-> "raises"]
    /\ provider = "None"
    /\ disk = [f \in FileNames |-> "absent"]
    /\ issue_data = "None"
    /\ pr_files = "None"
    /\ documentation = "None"
    /\ code_review = "None"
    /\ ai_calls = <<>>
    /\ messages = {}
    /\ run_result = "unset"

\* ------------------------------------------------- data_formatter.py state
\* JSON null, and Python's None where a formatter holds or returns it.
Null == [json |-> "null"]

\* No ADF document: a node store without nodes.
NoAdf == <<>>

\* formatted_data before generate_formatted_output has built it.
NotFormatted ==
    [jira_issue |-> Null, pull_request |-> Null, commits |-> <<>>,
     file_changes_summary |-> <<>>, file_contents |-> <<>>, metadata |-> Null]

\* The DataFormatter after construction (every field None), with
\* generate_formatted_output, _extract_text_from_adf and _truncate_text not
\* yet called, at position p.
FmtIdle(p) ==
    /\ fmt_pc = p
    /\ self_issue_data = Null
    /\ self_pr_data = Null
    /\ self_pr_commits = Null
    /\ self_pr_files = Null
    /\ self_pr_files_content = Null
    /\ formatted_data = NotFormatted
    /\ adf_doc = NoAdf
    /\ text_parts = <<>>
    /\ adf_text = <<>>
    /\ arg_text = <<>>
    /\ arg_max_chars = 0
    /\ truncated = <<>>

Init == AzdoIdle("get_pull_request") /\ RunIdle("idle") /\ FmtIdle("idle")

\* pr_data = self.get_pull_request(repo, pr_id); if not pr_data: return None
GetPullRequest ==
    /\ pc = "get_pull_request"
    /\ \E ok \in BOOLEAN :
          IF ok THEN /\ pr_data' = PullRequest
                     /\ pc' = "get_pr_diff"
                     /\ result' = result
                ELSE /\ pr_data' = pr_data
                     /\ pc' = "returned"
                     /\ result' = NoneResult
    /\ UNCHANGED <<diff_data, change, content, content_before, content_after,
                   lines_before, lines_after, diff, file_info,
                   files_with_additions, processed>>
    /\ UNCHANGED run_vars
    /\ UNCHANGED fmt_vars

\* diff_data = self.get_pr_diff(repo, pr_id); if not diff_data: return None
\* get_pr_diff gives None on any failure; an empty JSON object is falsy too.
GetPrDiff ==
    /\ pc = "get_pr_diff"
    /\ \E d \in {"None", "empty", "changes"} :
          /\ diff_data' = d
          /\ IF d = "changes" THEN pc' = "for_change" /\ result' = result
                              ELSE pc' = "returned" /\ result' = NoneResult
    /\ UNCHANGED <<pr_data, change, content, content_before, content_after,
                   lines_before, lines_after, diff, file_info,
                   files_with_additions, processed>>
    /\ UNCHANGED run_vars
    /\ UNCHANGED fmt_vars

\* The loop's iterations, for a listing of at most n items whose blobs hold
\* texts of the set texts.  The locals content, content_before,
\* content_after, lines_before, lines_after, diff and file_info show what
\* the current iteration assigned; one it did not assign shows as unset (the
\* code never reads a local before assigning it in the same iteration).

\* One iteration on a folder item: continue.
SkipFolderIn(n) ==
    /\ pc = "for_change"
    /\ Len(processed) < n
    /\ \E c \in ChangesAt(Len(processed) + 1) :
          /\ c.isFolder
          /\ change' = c
          /\ processed' = Append(processed, Outcome(c, FALSE, NoFileInfo))
    /\ content' = None
    /\ content_before' = None
    /\ content_after' = None
    /\ lines_before' = <<>>
    /\ lines_after' = <<>>
    /\ diff' = <<>>
    /\ file_info' = NoFileInfo
    /\ UNCHANGED <<pc, pr_data, diff_data, files_with_additions, result>>
    /\ UNCHANGED run_vars
    /\ UNCHANGED fmt_vars

\* One iteration on an 'add' item.
ProcessAddIn(n, texts) ==
    /\ pc = "for_change"
    /\ Len(processed) < n
    /\ \E c \in ChangesAt(Len(processed) + 1) :
       \E response \in RequestsIf(Truthy(c.objectId), texts) :
          /\ ~c.isFolder
          /\ c.changeType = "add"
          /\ change' = c
          /\ content' = IF Truthy(c.objectId) THEN get_file_content(response)
                        ELSE None
          /\ file_info' =
                IF Truthy(c.objectId) /\ Truthy(content')
                THEN [NewFileInfo(c) EXCEPT !.added_lines = SplitLines(content')]
                ELSE NewFileInfo(c)
          /\ files_with_additions' = AppendIfAdded(files_with_additions, file_info')
          /\ processed' = Append(processed,
                Outcome(c, Truthy(c.objectId) /\ content' = None, file_info'))
    /\ content_before' = None
    /\ content_after' = None
    /\ lines_before' = <<>>
    /\ lines_after' = <<>>
    /\ diff' = <<>>
    /\ UNCHANGED <<pc, pr_data, diff_data, result>>
    /\ UNCHANGED run_vars
    /\ UNCHANGED fmt_vars

\* One iteration on an 'edit' item.
ProcessEditIn(n, texts) ==
    /\ pc = "for_change"
    /\ Len(processed) < n
    /\ \E c \in ChangesAt(Len(processed) + 1) :
       \E rb \in RequestsIf(Truthy(c.originalObjectId) /\ Truthy(c.objectId), texts),
          ra \in RequestsIf(Truthy(c.originalObjectId) /\ Truthy(c.objectId), texts) :
          LET fetch == Truthy(c.originalObjectId) /\ Truthy(c.objectId)
              both == fetch /\ Truthy(get_file_content(rb))
                            /\ Truthy(get_file_content(ra))
          IN  /\ ~c.isFolder
              /\ c.changeType = "edit"
              /\ change' = c
              /\ content_before' = IF fetch THEN get_file_content(rb) ELSE None
              /\ content_after' = IF fetch THEN get_file_content(ra) ELSE None
              /\ lines_before' = IF both THEN SplitLines(content_before') ELSE <<>>
              /\ lines_after' = IF both THEN SplitLines(content_after') ELSE <<>>
              /\ diff' = IF both THEN EditDiff(lines_before', lines_after') ELSE <<>>
              /\ file_info' =
                    IF both
                    THEN [NewFileInfo(c) EXCEPT !.added_lines = EditAddedLines(diff')]
                    ELSE NewFileInfo(c)
              /\ files_with_additions' = AppendIfAdded(files_with_additions, file_info')
              /\ processed' = Append(processed,
                    Outcome(c, fetch /\ (content_before' = None \/ content_after' = None),
                            file_info'))
    /\ content' = None
    /\ UNCHANGED <<pc, pr_data, diff_data, result>>
    /\ UNCHANGED run_vars
    /\ UNCHANGED fmt_vars

\* Faulty variant of ProcessOtherIn: a 'delete' item's old content fetched
\* and its lines reported.
ProcessOtherReportingDeleted(n) ==
    /\ pc = "for_change"
    /\ Len(processed) < n
    /\ \E c \in ChangesAt(Len(processed) + 1), text \in {<<"a">>, <<"a", "\n", "a">>} :
          /\ ~c.isFolder
          /\ c.changeType \notin {"add", "edit"}
          /\ change' = c
          /\ file_info' =
                IF c.changeType = "delete" /\ Truthy(c.originalObjectId)
                THEN [NewFileInfo(c) EXCEPT !.added_lines = SplitLines(text)]
                ELSE NewFileInfo(c)
          /\ files_with_additions' = AppendIfAdded(files_with_additions, file_info')
          /\ processed' = Append(processed, Outcome(c, FALSE, file_info'))
    /\ content' = None
    /\ content_before' = None
    /\ content_after' = None
    /\ lines_before' = <<>>
    /\ lines_after' = <<>>
    /\ diff' = <<>>
    /\ UNCHANGED <<pc, pr_data, diff_data, result>>
    /\ UNCHANGED run_vars
    /\ UNCHANGED fmt_vars

\* One iteration on an item that is neither 'add' nor 'edit'.
ProcessOtherIn(n) ==
    /\ pc = "for_change"
    /\ Len(processed) < n
    /\ \E c \in ChangesAt(Len(processed) + 1) :
          /\ ~c.isFolder
          /\ c.changeType \notin {"add", "edit"}
          /\ change' = c
          /\ file_info' = NewFileInfo(c)
          /\ files_with_additions' = AppendIfAdded(files_with_additions, file_info')
          /\ processed' = Append(processed, Outcome(c, FALSE, file_info'))
    /\ content' = None
    /\ content_before' = None
    /\ content_after' = None
    /\ lines_before' = <<>>
    /\ lines_after' = <<>>
    /\ diff' = <<>>
    /\ UNCHANGED <<pc, pr_data, diff_data, result>>
    /\ UNCHANGED run_vars
    /\ UNCHANGED fmt_vars

\* The listing is exhausted: return the dictionary.
Return ==
    /\ pc = "for_change"
    /\ pc' = "returned"
    /\ result' = ResultOf(files_with_additions, pr_data)
    /\ UNCHANGED <<pr_data, diff_data, change, content, content_before,
                   content_after, lines_before, lines_after, diff, file_info,
                   files_with_additions, processed>>
    /\ UNCHANGED run_vars
    /\ UNCHANGED fmt_vars

\* Spec: listings of up to MaxChanges items with short blobs.
SkipFolder == SkipFolderIn(MaxChanges)
ProcessAdd == ProcessAddIn(MaxChanges, ListedContents)
ProcessEdit == ProcessEditIn(MaxChanges, ListedContents)
ProcessOther == ProcessOtherIn(MaxChanges)

Next ==
    \/ GetPullRequest
    \/ GetPrDiff
    \/ SkipFolder
    \/ ProcessAdd
    \/ ProcessEdit
    \/ ProcessOther
    \/ Return

Spec == Init /\ [][Next]_vars

\* ItemSpec: listings of one item with blobs of up to MaxContentLen
\* characters.
ItemSkipFolder == SkipFolderIn(1)
ItemProcessAdd == ProcessAddIn(1, Contents)
ItemProcessEdit == ProcessEditIn(1, Contents)
ItemProcessOther == ProcessOtherIn(1)

ItemNext ==
    \/ GetPullRequest
    \/ GetPrDiff
    \/ ItemSkipFolder
    \/ ItemProcessAdd
    \/ ItemProcessEdit
    \/ ItemProcessOther
    \/ Return

ItemSpec == Init /\ [][ItemNext]_vars

\* ----------------------------------------------------------------- DiffSpec
\* Lines as the edit branch sees them: opaque texts.
LineTexts == {<<"a">>, <<"b">>, <<"c">>}

\* The edit branch splits two non-empty contents, so each side has a line.
LineSeqs == UNION {[1..k -> LineTexts] : k \in 1..MaxLines}

DiffInit ==
    /\ pc = "edit_lines"
    /\ pr_data = PullRequest
    /\ diff_data = "changes"
    /\ change = NoChange
    /\ content = None
    /\ content_before = None
    /\ content_after = None
    /\ lines_before \in LineSeqs
    /\ lines_after \in LineSeqs
    /\ diff = <<>>
    /\ file_info = NoFileInfo
    /\ files_with_additions = <<>>
    /\ processed = <<>>
    /\ result = NoResult
    /\ RunIdle("idle")
    /\ FmtIdle("idle")

\* differ.compare(lines_before, lines_after) and the '+ ' filter.
DiffLines ==
    /\ pc = "edit_lines"
    /\ pc' = "edit_done"
    /\ diff' = EditDiff(lines_before, lines_after)
    /\ file_info' = [file_info EXCEPT !.added_lines = EditAddedLines(diff')]
    /\ UNCHANGED <<pr_data, diff_data, change, content, content_before,
                   content_after, lines_before, lines_after,
                   files_with_additions, processed, result>>
    /\ UNCHANGED run_vars
    /\ UNCHANGED fmt_vars

DiffNext == DiffLines

DiffSpec == DiffInit /\ [][DiffNext]_vars

\* ------------------------------------------------------------------ main.py
IssueKey == <<"PROJ-123">>
CustomReviewPrompt == <<"custom code review prompt">>
CustomDocumentationPrompt == <<"custom documentation prompt">>

Configs ==
    [issue_key : {None, IssueKey},
     generate_documentation : BOOLEAN,
     generate_code_review : BOOLEAN,
     code_review_prompt : {None, CustomReviewPrompt},
     documentation_prompt : {None, CustomDocumentationPrompt}]

\* What AIAnalyzer.__init__ meets for a key-based backend: no key, the
\* placeholder key, a package that cannot be imported, a client whose
\* construction raises, or a client; and for Ollama's /api/tags request.
BackendStates == {"no_key", "placeholder", "import_error", "init_error", "ok"}
OllamaStates == {"ok", "bad_status", "raises"}

Envs == [claude : BackendStates, openai : BackendStates, ollama : OllamaStates]

\* Faulty variant of SelectProvider: the backends tried from the local one
\* back to the first.
SelectLastUsable(e) ==
    IF e.ollama = "ok" THEN "ollama"
    ELSE IF e.openai = "ok" THEN "openai"
    ELSE IF e.claude = "ok" THEN "claude"
    ELSE "None"

\* AIAnalyzer.__init__: the provider it settles on, "None" when it raises
\* ValueError.
SelectProvider(e) ==
    IF e.claude = "ok" THEN "claude"
    ELSE IF e.openai = "ok" THEN "openai"
    ELSE IF e.ollama = "ok" THEN "ollama"
    ELSE "None"

\* WorkflowOrchestrator.__init__: an AIAnalyzer is built when anything is to
\* be generated.
NeedsAnalyzer(c) == c.generate_documentation \/ c.generate_code_review

\* AIAnalyzer.load_json_files: every issue_*.json and pr_*.json of the
\* working directory, each with what the file holds.
JsonNames == {"issue_data.json", "pr_commits.json", "pr_files_content.json"}

load_json_files(d) == {<<f, d[f]>> : f \in {g \in JsonNames : d[g] # "absent"}}

\* Faulty variant of truncate_text: the text cut at max_chars characters and
\* marked, as the lines commented out in _truncate_text would do.
TruncateAtLimit(t, limit) ==
    IF Len(t) > limit THEN SubSeq(t, 1, limit) \o <<"[... CONTEUDO TRUNCADO ...]">>
    ELSE t

\* AIAnalyzer._truncate_text
truncate_text(text, max_chars) == text

\* json.dumps(data, ...) and the truncation call that follows it.
FormattedJson(data) == truncate_text(data, 80000)

\* The prompts, as their parts in order.
DocumentationPrompt(data) ==
    [instructions |-> "Analisa os seguintes dados ... gera documentacao tecnica",
     header |-> "# DADOS ESTRUTURADOS",
     payload |-> FormattedJson(data),
     task |-> "# TAREFA Gera documentacao tecnica"]

CustomDocumentationPromptOf(custom, data) ==
    [instructions |-> custom[1],
     header |-> "# DADOS ESTRUTURADOS",
     payload |-> FormattedJson(data),
     task |-> ""]

CodeReviewPrompt(data) ==
    [instructions |-> "Analisa as seguintes alteracoes ... code review",
     header |-> "# DADOS DO PULL REQUEST",
     payload |-> FormattedJson(data),
     task |-> "# TAREFA Fornece um code review profissional"]

\* Faulty variant of CustomCodeReviewPromptOf: the override put in front of
\* the built-in task section.
CustomBeforeBuiltInTask(custom, data) ==
    [instructions |-> custom[1],
     header |-> "# DADOS DO PULL REQUEST",
     payload |-> FormattedJson(data),
     task |-> "# TAREFA Fornece um code review profissional"]

CustomCodeReviewPromptOf(custom, data) ==
    [instructions |-> custom[1],
     header |-> "# DADOS DO PULL REQUEST",
     payload |-> FormattedJson(data),
     task |-> ""]

\* What _call_ai may do: return a text, return '', return None, raise.
AiOutcomes == {"text", "empty", "None", "raises"}

Call(prompt, max_tokens) == [prompt |-> prompt, max_tokens |-> max_tokens]

RunInit ==
    /\ AzdoIdle("idle")
    /\ FmtIdle("idle")
    /\ run_pc = "main"
    /\ config \in Configs
    /\ env \in Envs
    /\ provider = "None"
    /\ disk = [f \in FileNames |-> "absent"]
    /\ issue_data = "None"
    /\ pr_files = "None"
    /\ documentation = "None"
    /\ code_review = "None"
    /\ ai_calls = <<>>
    /\ messages = {}
    /\ run_result = "unset"

\* __main__: WorkflowOrchestrator(...).  AIAnalyzer() raising ValueError
\* leaves the try block for its except clause; run() is not called.
Construct ==
    /\ run_pc = "main"
    /\ IF NeedsAnalyzer(config) /\ SelectProvider(env) = "None"
       THEN /\ run_pc' = "critical_error"
            /\ provider' = provider
            /\ messages' = messages \cup {"[ERRO CRITICO]"}
       ELSE /\ run_pc' = "fetch_issue"
            /\ provider' = IF NeedsAnalyzer(config) THEN SelectProvider(env) ELSE provider
            /\ messages' = messages
    /\ UNCHANGED <<config, env, disk, issue_data, pr_files, documentation,
                   code_review, ai_calls, run_result>>
    /\ UNCHANGED azdo_vars
    /\ UNCHANGED fmt_vars

\* Faulty variant of FetchIssueData: run() returning False when the issue
\* of a configured key could not be fetched.
FetchIssueDataOrAbort ==
    /\ run_pc = "fetch_issue"
    /\ IF ~Truthy(config.issue_key)
       THEN /\ messages' = messages \cup {"1. SEM ISSUE DO JIRA"}
            /\ UNCHANGED <<issue_data, disk, run_result>>
            /\ run_pc' = "fetch_pr"
       ELSE \E found \in BOOLEAN :
               IF found
               THEN /\ messages' = messages \cup {"1. BUSCANDO ISSUE DO JIRA",
                                                  "issue_data.json criado"}
                    /\ issue_data' = "dict"
                    /\ disk' = [disk EXCEPT !["issue_data.json"] = "written"]
                    /\ run_pc' = "fetch_pr"
                    /\ run_result' = run_result
               ELSE /\ messages' = messages \cup {"1. BUSCANDO ISSUE DO JIRA",
                                                  "Erro ao buscar issue"}
                    /\ UNCHANGED <<issue_data, disk>>
                    /\ run_pc' = "done"
                    /\ run_result' = "False"
    /\ UNCHANGED <<config, env, provider, pr_files, documentation, code_review,
                   ai_calls>>
    /\ UNCHANGED azdo_vars
    /\ UNCHANGED fmt_vars

\* run(): issue_data = self.fetch_issue_data()
FetchIssueData ==
    /\ run_pc = "fetch_issue"
    /\ run_pc' = "fetch_pr"
    /\ IF ~Truthy(config.issue_key)
       THEN /\ messages' = messages \cup {"1. SEM ISSUE DO JIRA"}
            /\ issue_data' = "None"
            /\ disk' = disk
       ELSE \E found \in BOOLEAN :
               IF found
               THEN /\ messages' = messages \cup {"1. BUSCANDO ISSUE DO JIRA",
                                                  "issue_data.json criado"}
                    /\ issue_data' = "dict"
                    /\ disk' = [disk EXCEPT !["issue_data.json"] = "written"]
               ELSE /\ messages' = messages \cup {"1. BUSCANDO ISSUE DO JIRA",
                                                  "Erro ao buscar issue"}
                    /\ issue_data' = "None"
                    /\ disk' = disk
    /\ UNCHANGED <<config, env, provider, pr_files, documentation, code_review,
                   ai_calls, run_result>>
    /\ UNCHANGED azdo_vars
    /\ UNCHANGED fmt_vars

\* Faulty variant of WithoutPrData: run() going on whatever fetch_pr_data
\* returned.
NeverWithoutPrData(pr) == FALSE

\* run(): if not pr_data
WithoutPrData(pr) == pr = "None"

\* run(): pr_data = self.fetch_pr_data(); if not pr_data: return False
\* get_pr_commits gives None or the JSON object (falsy when empty);
\* get_pr_added_lines_only gives None or its dictionary.
FetchPrData ==
    /\ run_pc = "fetch_pr"
    /\ \E commits_data \in {"None", "empty", "dict"}, added_lines_data \in {"None", "dict"} :
          /\ IF commits_data # "dict"
             THEN /\ messages' = messages \cup {"2. BUSCANDO PULL REQUEST",
                                                "Erro ao buscar commits"}
                        \cup (IF WithoutPrData("None")
                              THEN {"[ERRO] Nao foi possivel continuar sem dados do PR"}
                              ELSE {})
                  /\ disk' = disk
                  /\ pr_files' = "None"
             ELSE IF added_lines_data = "None"
             THEN /\ messages' = messages \cup {"2. BUSCANDO PULL REQUEST",
                                                "pr_commits.json criado",
                                                "Erro ao buscar ficheiros do PR"}
                        \cup (IF WithoutPrData("None")
                              THEN {"[ERRO] Nao foi possivel continuar sem dados do PR"}
                              ELSE {})
                  /\ disk' = [disk EXCEPT !["pr_commits.json"] = "written"]
                  /\ pr_files' = "None"
             ELSE /\ messages' = messages \cup {"2. BUSCANDO PULL REQUEST",
                                                "pr_commits.json criado",
                                                "pr_files_content.json criado"}
                        \cup (IF WithoutPrData("dict")
                              THEN {"[ERRO] Nao foi possivel continuar sem dados do PR"}
                              ELSE {})
                  /\ disk' = [disk EXCEPT !["pr_commits.json"] = "written",
                                          !["pr_files_content.json"] = "written"]
                  /\ pr_files' = "dict"
          /\ run_pc' = IF WithoutPrData(pr_files') THEN "done" ELSE "documentation"
          /\ run_result' = IF WithoutPrData(pr_files') THEN "False" ELSE run_result
    /\ UNCHANGED <<config, env, provider, issue_data, documentation, code_review,
                   ai_calls>>
    /\ UNCHANGED azdo_vars
    /\ UNCHANGED fmt_vars

\* run(): step 3, with _generate_documentation, generate_documentation and
\* save_documentation.
GenerateDocumentation ==
    /\ run_pc = "documentation"
    /\ run_pc' = "code_review"
    /\ IF ~config.generate_documentation
       THEN /\ messages' = messages \cup {"3. DOCUMENTACAO DESATIVADA"}
            /\ UNCHANGED <<documentation, ai_calls, disk>>
       ELSE \E loaded \in BOOLEAN, outcome \in AiOutcomes, saved \in BOOLEAN :
               LET data == load_json_files(disk)
                   prompt == IF Truthy(config.documentation_prompt)
                             THEN CustomDocumentationPromptOf(config.documentation_prompt, data)
                             ELSE DocumentationPrompt(data)
                   banner == {"3. GERANDO DOCUMENTACAO COM IA"}
               IN  IF ~loaded \/ data = {}
                   THEN /\ messages' = messages \cup banner \cup
                              {"[ERRO] Nenhum ficheiro issue_*.json ou pr_*.json encontrado",
                               "Erro ao gerar documentacao"}
                        /\ UNCHANGED <<documentation, ai_calls, disk>>
                   ELSE /\ ai_calls' = Append(ai_calls, Call(prompt, 8000))
                        /\ IF outcome = "raises"
                           THEN /\ messages' = messages \cup banner \cup
                                      {"[ERRO] Erro ao gerar documentacao",
                                       "Erro ao gerar documentacao"}
                                /\ UNCHANGED <<documentation, disk>>
                           ELSE IF outcome # "text"
                           THEN /\ messages' = messages \cup banner \cup
                                      {"[OK] Documentacao gerada com sucesso!",
                                       "Erro ao gerar documentacao"}
                                /\ UNCHANGED <<documentation, disk>>
                           ELSE /\ documentation' = "text"
                                /\ IF saved
                                   THEN /\ disk' = [disk EXCEPT !["DOCUMENTATION.md"] = "written"]
                                        /\ messages' = messages \cup banner \cup
                                              {"[OK] Documentacao gerada com sucesso!",
                                               "Documentacao salva em DOCUMENTATION.md"}
                                   ELSE /\ disk' = disk
                                        /\ messages' = messages \cup banner \cup
                                              {"[OK] Documentacao gerada com sucesso!",
                                               "[ERRO] Erro ao salvar documentacao"}
    /\ UNCHANGED <<config, env, provider, issue_data, pr_files, code_review,
                   run_result>>
    /\ UNCHANGED azdo_vars
    /\ UNCHANGED fmt_vars

\* Faulty variant of GenerateCodeReviewEnabled: step 4 taken as disabled
\* once an enabled documentation step has failed.
EnabledUnlessDocumentationFailed(c) ==
    c.generate_code_review /\ ~(c.generate_documentation /\ documentation = "None")

\* run(): if self.generate_code_review
GenerateCodeReviewEnabled(c) == c.generate_code_review

\* run(): step 4, with _generate_code_review, generate_code_review and
\* save_code_review.  With a custom prompt: save_code_review(None) opens the
\* file and fails on the write, then review[:400] raises into the except
\* clause; a returned '' is saved and returned.
GenerateCodeReview ==
    /\ run_pc = "code_review"
    /\ run_pc' = "summary"
    /\ IF ~GenerateCodeReviewEnabled(config)
       THEN /\ messages' = messages \cup {"4. CODE REVIEW DESATIVADO"}
            /\ UNCHANGED <<code_review, ai_calls, disk>>
       ELSE \E loaded \in BOOLEAN, outcome \in AiOutcomes, saved \in BOOLEAN :
               LET data == load_json_files(disk)
                   custom == Truthy(config.code_review_prompt)
                   prompt == IF custom
                             THEN CustomCodeReviewPromptOf(config.code_review_prompt, data)
                             ELSE CodeReviewPrompt(data)
                   banner == {"4. GERANDO CODE REVIEW COM IA"}
                   written == [disk EXCEPT !["CODE_REVIEW.md"] = "written"]
               IN  IF ~loaded \/ data = {}
                   THEN /\ messages' = messages \cup banner \cup
                              (IF custom
                               THEN {"[ERRO] Nenhum ficheiro de dados encontrado"}
                               ELSE {"[ERRO] Nenhum ficheiro issue_*.json ou pr_*.json encontrado",
                                     "Erro ao gerar code review"})
                        /\ UNCHANGED <<code_review, ai_calls, disk>>
                   ELSE /\ ai_calls' = Append(ai_calls, Call(prompt, 6000))
                        /\ IF outcome = "raises"
                           THEN /\ messages' = messages \cup banner \cup
                                      (IF custom
                                       THEN {"[ERRO] Erro ao gerar code review"}
                                       ELSE {"[ERRO] Erro ao gerar code review",
                                             "Erro ao gerar code review"})
                                /\ UNCHANGED <<code_review, disk>>
                           ELSE IF outcome = "text"
                           THEN /\ code_review' = "text"
                                /\ disk' = IF saved THEN written ELSE disk
                                /\ messages' = messages \cup banner \cup
                                      {"[OK] Code review gerado com sucesso!",
                                       IF saved THEN "Code review salvo em CODE_REVIEW.md"
                                                ELSE "[ERRO] Erro ao salvar code review"}
                           ELSE IF ~custom
                           THEN /\ messages' = messages \cup banner \cup
                                      {"[OK] Code review gerado com sucesso!",
                                       "Erro ao gerar code review"}
                                /\ UNCHANGED <<code_review, disk>>
                           ELSE IF outcome = "empty"
                           THEN /\ code_review' = "empty"
                                /\ disk' = IF saved THEN written ELSE disk
                                /\ messages' = messages \cup banner \cup
                                      {"[OK] Code review gerado com sucesso!",
                                       IF saved THEN "Code review salvo em CODE_REVIEW.md"
                                                ELSE "[ERRO] Erro ao salvar code review"}
                           ELSE /\ code_review' = code_review
                                /\ disk' = IF saved THEN written ELSE disk
                                /\ messages' = messages \cup banner \cup
                                      {"[OK] Code review gerado com sucesso!",
                                       "[ERRO] Erro ao salvar code review",
                                       "[ERRO] Erro ao gerar code review"}
    /\ UNCHANGED <<config, env, provider, issue_data, pr_files, documentation,
                   run_result>>
    /\ UNCHANGED azdo_vars
    /\ UNCHANGED fmt_vars

\* run(): the final summary and return True.
Summary ==
    /\ run_pc = "summary"
    /\ run_pc' = "done"
    /\ run_result' = "True"
    /\ messages' = messages \cup
          {"WORKFLOW CONCLUIDO COM SUCESSO!",
           "Ficheiros gerados: pr_commits.json",
           "Ficheiros gerados: pr_files_content.json"}
          \cup (IF issue_data # "None" THEN {"Ficheiros gerados: issue_data.json"} ELSE {})
          \cup (IF documentation = "text" THEN {"Ficheiros gerados: DOCUMENTATION.md"} ELSE {})
          \cup (IF code_review = "text" THEN {"Ficheiros gerados: CODE_REVIEW.md"} ELSE {})
    /\ UNCHANGED <<config, env, provider, disk, issue_data, pr_files,
                   documentation, code_review, ai_calls>>
    /\ UNCHANGED azdo_vars
    /\ UNCHANGED fmt_vars

RunNext ==
    \/ Construct
    \/ FetchIssueData
    \/ FetchPrData
    \/ GenerateDocumentation
    \/ GenerateCodeReview
    \/ Summary

RunSpec == RunInit /\ [][RunNext]_vars

\* ----------------------------------------------- main.py, run after run
\* What an earlier run left in the working directory: nothing in the
\* workflow removes a file, so every file written is still there, now
\* holding data of an earlier run.
LeftBehind(d) == [f \in FileNames |-> IF d[f] = "absent" THEN "absent" ELSE "stale"]

\* The environments of the runs that follow one another: a backend that is
\* there or not, for the first and for the last backend of __init__.
RerunEnvs ==
    {e \in Envs : /\ e.claude \in {"no_key", "ok"}
                  /\ e.openai = "no_key"
                  /\ e.ollama \in {"raises", "ok"}}

RerunInit ==
    /\ RunInit
    /\ env \in RerunEnvs

\* __main__ started again in the same working directory, once the run
\* before it has ended, with any constants at the top of main.py: a new
\* process, whose objects and output are new, and the files as they were
\* left.
StartNextRun ==
    /\ run_pc \in {"done", "critical_error"}
    /\ run_pc' = "main"
    /\ config' \in Configs
    /\ env' = env
    /\ provider' = "None"
    /\ disk' = LeftBehind(disk)
    /\ issue_data' = "None"
    /\ pr_files' = "None"
    /\ documentation' = "None"
    /\ code_review' = "None"
    /\ ai_calls' = <<>>
    /\ messages' = {}
    /\ run_result' = "unset"
    /\ UNCHANGED azdo_vars
    /\ UNCHANGED fmt_vars

RerunNext ==
    \/ Construct
    \/ FetchIssueData
    \/ FetchPrData
    \/ GenerateDocumentation
    \/ GenerateCodeReview
    \/ Summary
    \/ StartNextRun

RerunSpec == RerunInit /\ [][RerunNext]_vars

\* -------------------------------------------------------- data_formatter.py
\* A JSON object that is empty (falsy in Python, like None).
EmptyObject == [json |-> "emptyobject"]

\* Python truthiness of a loaded JSON document: None and {} are falsy.
TruthyJson(x) == x.json = "object"

\* A dictionary key that is not there.
Absent == <<"absent">>

\* str.split('\n') by a left-to-right scan: a segment ends at each line
\* break and the rest after the last break, empty or not, is a segment.
RECURSIVE SegmentsFrom(_, _, _)
SegmentsFrom(s, i, cur) ==
    IF i > Len(s) THEN <<cur>>
    ELSE IF s[i] = "\n" THEN <<cur>> \o SegmentsFrom(s, i + 1, <<>>)
    ELSE SegmentsFrom(s, i + 1, Append(cur, s[i]))

split_newline(s) == SegmentsFrom(s, 1, <<>>)

\* abs()
Abs(n) == IF n < 0 THEN 0 - n ELSE n

\* ---- _extract_text_from_adf
\* An ADF document is a store of nodes, node 1 the document itself and the
\* nodes numbered in document order; a node is a dict with or without a
\* 'text' key, a list, or another value, and lists its children (a dict's
\* 'content', a list's items) by their numbers.
AdfKinds == {"text", "dict", "list", "other"}

\* The text of node i, when it has one.
Letters == <<"A", "B", "C", "D", "E", "F", "G", "H">>
TextOf(i) == <<Letters[i]>>

\* The children of node i in a document given by the depths d of its nodes.
ChildrenOf(d, i) ==
    SelectSeq([j \in 1..Len(d) |-> j],
              LAMBDA j : /\ j > i
                         /\ d[j] = d[i] + 1
                         /\ \A k \in (i + 1)..j : d[k] > d[i])

AdfDocOf(d, kinds) ==
    [i \in 1..Len(d) |-> [kind |-> kinds[i], text |-> TextOf(i),
                          content |-> ChildrenOf(d, i)]]

\* The example document {content:[{text:A},{content:[{text:B}]}]}.
ExampleAdf ==
    <<[kind |-> "dict", text |-> <<>>, content |-> <<2, 3>>],
      [kind |-> "text", text |-> <<"A">>, content |-> <<>>],
      [kind |-> "dict", text |-> <<>>, content |-> <<4>>],
      [kind |-> "text", text |-> <<"B">>, content |-> <<>>]>>

\* Faulty variants of extract_content: the children visited before the
\* node's own text.
RECURSIVE ChildrenFirst(_, _, _)
RECURSIVE ChildrenFirstItems(_, _, _, _)
ChildrenFirst(doc, i, parts) ==
    IF doc[i].kind \in {"text", "dict"}
    THEN LET below == ChildrenFirstItems(doc, doc[i].content, 1, parts)
         IN  IF doc[i].kind = "text" THEN Append(below, doc[i].text) ELSE below
    ELSE IF doc[i].kind = "list"
    THEN ChildrenFirstItems(doc, doc[i].content, 1, parts)
    ELSE parts

ChildrenFirstItems(doc, items, k, parts) ==
    IF k > Len(items) THEN parts
    ELSE ChildrenFirstItems(doc, items, k + 1, ChildrenFirst(doc, items[k], parts))

\* extract_content(node): text_parts after the call, parts before it.
RECURSIVE extract_content(_, _, _)
RECURSIVE extract_items(_, _, _, _)
extract_content(doc, i, parts) ==
    IF doc[i].kind \in {"text", "dict"}
    THEN extract_items(doc, doc[i].content, 1,
                       IF doc[i].kind = "text" THEN Append(parts, doc[i].text)
                       ELSE parts)
    ELSE IF doc[i].kind = "list"
    THEN extract_items(doc, doc[i].content, 1, parts)
    ELSE parts

\* for child in node['content'] / for item in node, from the k-th on.
extract_items(doc, items, k, parts) ==
    IF k > Len(items) THEN parts
    ELSE extract_items(doc, items, k + 1, extract_content(doc, items[k], parts))

\* '\n'.join(text_parts)
RECURSIVE JoinFrom(_, _)
JoinFrom(parts, k) ==
    IF k > Len(parts) THEN <<>>
    ELSE IF k = Len(parts) THEN parts[k]
    ELSE parts[k] \o <<"\n">> \o JoinFrom(parts, k + 1)

JoinLines(parts) == JoinFrom(parts, 1)

\* _extract_text_from_adf(adf_doc) for a dict.
extract_text_from_adf(doc) == JoinLines(extract_content(doc, 1, <<>>))

\* The documents drawn: every tree of at most MaxNodes nodes whose root is a
\* dict and whose other nodes are dicts with or without text, lists, or
\* other values (which have no children).
AdfShapes(n) ==
    {d \in [1..n -> 0..(n - 1)] :
        /\ d[1] = 0
        /\ \A i \in 2..n : d[i] >= 1 /\ d[i] <= d[i - 1] + 1}

AdfKindsFor(d) ==
    {k \in [1..Len(d) -> AdfKinds] :
        /\ k[1] \in {"text", "dict"}
        /\ \A i \in 1..Len(d) : k[i] = "other" => ChildrenOf(d, i) = <<>>}

\* adf_doc is one of the documents drawn, or the example document.
IsAdfDoc(doc) ==
    \/ doc = ExampleAdf
    \/ \E n \in 1..MaxNodes : \E d \in AdfShapes(n) : \E k \in AdfKindsFor(d) :
          doc = AdfDocOf(d, k)

\* The formatter's fields and locals other than those of
\* _extract_text_from_adf, as FmtIdle has them.
FormatterIdle ==
    /\ self_issue_data = Null
    /\ self_pr_data = Null
    /\ self_pr_commits = Null
    /\ self_pr_files = Null
    /\ self_pr_files_content = Null
    /\ formatted_data = NotFormatted

TruncateIdle ==
    /\ arg_text = <<>>
    /\ arg_max_chars = 0
    /\ truncated = <<>>

AdfInit ==
    /\ AzdoIdle("idle")
    /\ RunIdle("idle")
    /\ FormatterIdle
    /\ TruncateIdle
    /\ fmt_pc = "extract_text_from_adf"
    /\ IsAdfDoc(adf_doc)
    /\ text_parts = <<>>
    /\ adf_text = <<>>

\* _extract_text_from_adf(adf_doc) on a dict.
ExtractTextFromAdf ==
    /\ fmt_pc = "extract_text_from_adf"
    /\ fmt_pc' = "adf_done"
    /\ text_parts' = extract_content(adf_doc, 1, <<>>)
    /\ adf_text' = JoinLines(text_parts')
    /\ UNCHANGED <<self_issue_data, self_pr_data, self_pr_commits, self_pr_files,
                   self_pr_files_content, formatted_data, adf_doc, arg_text,
                   arg_max_chars, truncated>>
    /\ UNCHANGED azdo_vars
    /\ UNCHANGED run_vars

AdfNext == ExtractTextFromAdf

AdfSpec == AdfInit /\ [][AdfNext]_vars

\* ---- generate_formatted_output
\* The issue documents load_all_data may find in issue_data.json: none, an
\* empty object, or an object with a key and, or without, 'fields'.  Of
\* the fields the description is absent, null, a string or an ADF document,
\* and each of the nested ones is absent, null or an object.
NestedNames == {"issuetype", "status", "priority", "assignee", "reporter"}

Descriptions ==
    {[kind |-> "absent", doc |-> NoAdf], [kind |-> "null", doc |-> NoAdf],
     [kind |-> "str", doc |-> NoAdf], [kind |-> "adf", doc |-> ExampleAdf]}

IssueFields == [description : Descriptions, nested : [NestedNames -> {"absent", "null", "object"}]]

NoFields == [description |-> [kind |-> "absent", doc |-> NoAdf],
             nested |-> [n \in NestedNames |-> "absent"]]

Issues ==
    {Null, EmptyObject}
    \cup {[json |-> "object", key |-> "PROJ-123", has_fields |-> FALSE, fields |-> NoFields]}
    \cup [json : {"object"}, key : {"PROJ-123"}, has_fields : {TRUE}, fields : IssueFields]

\* What a formatter call gives: a value, or an exception that leaves
\* generate_formatted_output.
Returned(v) == [raised |-> FALSE, value |-> v]
Raised == [raised |-> TRUE, value |-> Null]

\* fields.get(name, {}).get(..., default) for a nested field in state st.
NestedGet(st, default) == IF st = "object" THEN "value" ELSE default

\* The dictionary format_jira_issue builds from a truthy issue_data.
JiraIssueOf(issue) ==
    LET fields == IF issue.has_fields THEN issue.fields ELSE NoFields
        d == fields.description
        description ==
            IF d.kind = "adf" THEN extract_text_from_adf(d.doc)
            ELSE IF d.kind = "str" THEN <<"d">>
            ELSE IF d.kind = "null" THEN None
            ELSE <<>>
    IN  IF \E n \in NestedNames : fields.nested[n] = "null"
        THEN Raised
        ELSE Returned([issue_key |-> issue.key,
                       summary |-> IF issue.has_fields THEN "summary" ELSE "",
                       description |-> description,
                       type |-> NestedGet(fields.nested["issuetype"], ""),
                       status |-> NestedGet(fields.nested["status"], ""),
                       priority |-> NestedGet(fields.nested["priority"], ""),
                       assignee |-> NestedGet(fields.nested["assignee"], "N/A"),
                       reporter |-> NestedGet(fields.nested["reporter"], "N/A"),
                       created |-> IF issue.has_fields THEN "created" ELSE "",
                       updated |-> IF issue.has_fields THEN "updated" ELSE ""])

\* Faulty variant of format_jira_issue: the test of issue_data left out, so
\* that None.get raises and an empty object is formatted.
FormatIssueUnguarded(issue) ==
    IF issue = Null THEN Raised
    ELSE IF issue = EmptyObject
    THEN JiraIssueOf([json |-> "object", key |-> "", has_fields |-> FALSE,
                      fields |-> NoFields])
    ELSE JiraIssueOf(issue)

\* DataFormatter.format_jira_issue
format_jira_issue(issue) ==
    IF ~TruthyJson(issue) THEN Returned(Null) ELSE JiraIssueOf(issue)

\* pr_data.json as load_all_data may find it, and format_pr_data.
PrDataObject == [json |-> "object", pullRequestId |-> 12345,
                 sourceRefName |-> "refs/heads/feature",
                 targetRefName |-> "refs/heads/main"]

PrDatas == {Null, EmptyObject, PrDataObject}

format_pr_data(pr) ==
    IF ~TruthyJson(pr) THEN Null
    ELSE [pr_id |-> pr.pullRequestId, source_branch |-> "feature",
          target_branch |-> "main", created_by |-> "N/A"]

\* The commit identifiers drawn: the first k characters of two hashes, for
\* every k up to MaxIdLen, and the missing key.
IdAlphabet == <<"0", "1", "2", "3", "4", "5", "6", "7", "8", "9", "a", "b", "c", "d">>

CommitIds ==
    {SubSeq(IdAlphabet, o, o + k - 1) : o \in 1..2, k \in 0..MaxIdLen} \cup {Absent}

Commits == [commitId : CommitIds, comment : {"msg"}]

CommitLists == UNION {[1..k -> Commits] : k \in 0..MaxCommits}

PrCommits == {Null, EmptyObject} \cup [json : {"object"}, value : CommitLists]

\* commit.get('commitId', '')
CommitIdOf(commit) == IF commit.commitId = Absent THEN <<>> ELSE commit.commitId

\* Faulty variant of ShortId: the identifier taken to have ShortIdLen
\* characters, a shorter one filled up.
PaddedShortId(id) == [k \in 1..ShortIdLen |-> IF k <= Len(id) THEN id[k] ELSE "0"]

\* id[:8]
ShortId(id) == SubSeq(id, 1, IF Len(id) < ShortIdLen THEN Len(id) ELSE ShortIdLen)

\* DataFormatter.format_commits
format_commits(pr_commits) ==
    IF ~TruthyJson(pr_commits) THEN <<>>
    ELSE [k \in 1..Len(pr_commits.value) |->
            [commit_id |-> ShortId(CommitIdOf(pr_commits.value[k])),
             message |-> pr_commits.value[k].comment,
             author |-> "N/A"]]

\* pr_files.json and format_file_changes.
PrFiles ==
    {Null, [json |-> "object", files |-> <<[path |-> "f", changeType |-> "edit"]>>]}

format_file_changes(pr_files_in) ==
    IF ~TruthyJson(pr_files_in) THEN <<>>
    ELSE [k \in 1..Len(pr_files_in.files) |->
            [path |-> pr_files_in.files[k].path,
             change_type |-> pr_files_in.files[k].changeType]]

\* The file entries of pr_files_content.json: a change type and the two
\* contents, '' standing for a missing key as well.
FileEntries ==
    [path : {"f"}, changeType : ChangeTypes, content_before : Contents,
     content_after : Contents]

OtherEntry == [path |-> "g", changeType |-> "edit", content_before |-> <<"a">>,
               content_after |-> <<"a">>]

\* len(content.split('\n')) if content else 0
CountLines(c) == IF Truthy(c) THEN Len(split_newline(c)) ELSE 0

\* lines_added, lines_removed and abs(lines_added - lines_removed)
LinesChanged(changeType, before, after) ==
    LET lines_added == IF changeType # "delete" THEN after - before ELSE 0
        lines_removed == IF changeType # "add" THEN before - after ELSE 0
    IN  Abs(lines_added - lines_removed)

FileContentOf(f) ==
    [path |-> f.path, change_type |-> f.changeType,
     lines_before |-> CountLines(f.content_before),
     lines_after |-> CountLines(f.content_after),
     lines_changed |-> LinesChanged(f.changeType, CountLines(f.content_before),
                                    CountLines(f.content_after)),
     content_before |-> f.content_before, content_after |-> f.content_after]

\* DataFormatter.format_file_contents
format_file_contents(pr_files_content_in) ==
    IF ~TruthyJson(pr_files_content_in) THEN <<>>
    ELSE [k \in 1..Len(pr_files_content_in.files) |->
            FileContentOf(pr_files_content_in.files[k])]

\* The working directory load_all_data reads: one of the five documents
\* drawn from all its values, the others from a few.
Loads(issue, pr, commits, files, contents) ==
    /\ self_issue_data' = issue
    /\ self_pr_data' = pr
    /\ self_pr_commits' = commits
    /\ self_pr_files' = files
    /\ self_pr_files_content' = contents

OneCommit == [json |-> "object", value |-> <<[commitId |-> SubSeq(IdAlphabet, 1, 10),
                                              comment |-> "msg"]>>]

OneContent == [json |-> "object", files |-> <<OtherEntry>>]

FormatInit ==
    /\ AzdoIdle("idle")
    /\ RunIdle("idle")
    /\ FmtIdle("load_all_data")

\* generate_formatted_output: self.load_all_data()
LoadAllData ==
    /\ fmt_pc = "load_all_data"
    /\ fmt_pc' = "format_jira_issue"
    /\ \/ \E issue \in Issues, pr \in PrDatas, files \in PrFiles :
             Loads(issue, pr, OneCommit, files, OneContent)
       \/ \E issue \in {Null, EmptyObject}, commits \in PrCommits :
             Loads(issue, PrDataObject, commits, Null, OneContent)
       \/ \E issue \in {Null, EmptyObject}, f \in FileEntries, more \in BOOLEAN :
             Loads(issue, PrDataObject, OneCommit, Null,
                   [json |-> "object",
                    files |-> IF more THEN <<f, OtherEntry>> ELSE <<f>>])
       \/ \E issue \in {Null, EmptyObject},
             contents \in {Null, EmptyObject, [json |-> "object", files |-> <<>>]} :
             Loads(issue, PrDataObject, OneCommit, Null, contents)
    /\ UNCHANGED <<formatted_data, adf_doc, text_parts, adf_text, arg_text,
                   arg_max_chars, truncated>>
    /\ UNCHANGED azdo_vars
    /\ UNCHANGED run_vars

\* 'jira_issue': self.format_jira_issue()
FormatJiraIssue ==
    /\ fmt_pc = "format_jira_issue"
    /\ LET r == format_jira_issue(self_issue_data)
       IN  /\ fmt_pc' = IF r.raised THEN "raised" ELSE "format_pr_data"
           /\ formatted_data' = [formatted_data EXCEPT !.jira_issue = r.value]
           /\ IF ~r.raised /\ TruthyJson(self_issue_data) /\ self_issue_data.has_fields
                 /\ self_issue_data.fields.description.kind = "adf"
              THEN /\ adf_doc' = self_issue_data.fields.description.doc
                   /\ text_parts' = extract_content(adf_doc', 1, <<>>)
                   /\ adf_text' = JoinLines(text_parts')
              ELSE UNCHANGED <<adf_doc, text_parts, adf_text>>
    /\ UNCHANGED <<self_issue_data, self_pr_data, self_pr_commits, self_pr_files,
                   self_pr_files_content, arg_text, arg_max_chars, truncated>>
    /\ UNCHANGED azdo_vars
    /\ UNCHANGED run_vars

\* 'pull_request': self.format_pr_data()
FormatPrData ==
    /\ fmt_pc = "format_pr_data"
    /\ fmt_pc' = "format_commits"
    /\ formatted_data' = [formatted_data EXCEPT !.pull_request = format_pr_data(self_pr_data)]
    /\ UNCHANGED <<self_issue_data, self_pr_data, self_pr_commits, self_pr_files,
                   self_pr_files_content, adf_doc, text_parts, adf_text,
                   arg_text, arg_max_chars, truncated>>
    /\ UNCHANGED azdo_vars
    /\ UNCHANGED run_vars

\* 'commits': self.format_commits()
FormatCommits ==
    /\ fmt_pc = "format_commits"
    /\ fmt_pc' = "format_file_changes"
    /\ formatted_data' = [formatted_data EXCEPT !.commits = format_commits(self_pr_commits)]
    /\ UNCHANGED <<self_issue_data, self_pr_data, self_pr_commits, self_pr_files,
                   self_pr_files_content, adf_doc, text_parts, adf_text,
                   arg_text, arg_max_chars, truncated>>
    /\ UNCHANGED azdo_vars
    /\ UNCHANGED run_vars

\* 'file_changes_summary': self.format_file_changes()
FormatFileChanges ==
    /\ fmt_pc = "format_file_changes"
    /\ fmt_pc' = "format_file_contents"
    /\ formatted_data' =
          [formatted_data EXCEPT !.file_changes_summary = format_file_changes(self_pr_files)]
    /\ UNCHANGED <<self_issue_data, self_pr_data, self_pr_commits, self_pr_files,
                   self_pr_files_content, adf_doc, text_parts, adf_text,
                   arg_text, arg_max_chars, truncated>>
    /\ UNCHANGED azdo_vars
    /\ UNCHANGED run_vars

\* 'file_contents': self.format_file_contents()
FormatFileContents ==
    /\ fmt_pc = "format_file_contents"
    /\ fmt_pc' = "metadata"
    /\ formatted_data' =
          [formatted_data EXCEPT !.file_contents = format_file_contents(self_pr_files_content)]
    /\ UNCHANGED <<self_issue_data, self_pr_data, self_pr_commits, self_pr_files,
                   self_pr_files_content, adf_doc, text_parts, adf_text,
                   arg_text, arg_max_chars, truncated>>
    /\ UNCHANGED azdo_vars
    /\ UNCHANGED run_vars

\* 'metadata': {...} and return formatted_data
Metadata ==
    /\ fmt_pc = "metadata"
    /\ fmt_pc' = "done"
    /\ formatted_data' =
          [formatted_data EXCEPT !.metadata =
              [json |-> "object",
               total_commits |-> Len(format_commits(self_pr_commits)),
               total_files_changed |-> Len(format_file_changes(self_pr_files))]]
    /\ UNCHANGED <<self_issue_data, self_pr_data, self_pr_commits, self_pr_files,
                   self_pr_files_content, adf_doc, text_parts, adf_text,
                   arg_text, arg_max_chars, truncated>>
    /\ UNCHANGED azdo_vars
    /\ UNCHANGED run_vars

FormatNext ==
    \/ LoadAllData
    \/ FormatJiraIssue
    \/ FormatPrData
    \/ FormatCommits
    \/ FormatFileChanges
    \/ FormatFileContents
    \/ Metadata

FormatSpec == FormatInit /\ [][FormatNext]_vars

\* ----------------------------------------------------------- _truncate_text
AdfIdle ==
    /\ adf_doc = NoAdf
    /\ text_parts = <<>>
    /\ adf_text = <<>>

\* _truncate_text is about to be called with a text of up to MaxContentLen
\* characters and a limit of up to MaxLimit.
TruncateInit ==
    /\ AzdoIdle("idle")
    /\ RunIdle("idle")
    /\ FormatterIdle
    /\ AdfIdle
    /\ fmt_pc = "truncate_text"
    /\ arg_text \in Contents
    /\ arg_max_chars \in 0..MaxLimit
    /\ truncated = <<>>

\* self._truncate_text(text, max_chars)
TruncateText ==
    /\ fmt_pc = "truncate_text"
    /\ fmt_pc' = "truncate_done"
    /\ truncated' = truncate_text(arg_text, arg_max_chars)
    /\ UNCHANGED <<self_issue_data, self_pr_data, self_pr_commits, self_pr_files,
                   self_pr_files_content, formatted_data, adf_doc, text_parts,
                   adf_text, arg_text, arg_max_chars>>
    /\ UNCHANGED azdo_vars
    /\ UNCHANGED run_vars

TruncateNext == TruncateText

TruncateSpec == TruncateInit /\ [][TruncateNext]_vars

\* ------------------------------------------- properties of the assembler
Range(q) == {q[i] : i \in 1..Len(q)}

Last(q) == q[Len(q)]

PathsOf(files) == {files[i].path : i \in 1..Len(files)}

\* The last iteration handled a file item of the given change type.
LastWas(type) ==
    /\ processed # <<>>
    /\ Last(processed).path = change.path
    /\ ~change.isFolder
    /\ change.changeType = type

\* The last iteration was an 'edit' that fetched both contents.
EditFetched ==
    /\ LastWas("edit")
    /\ Truthy(change.originalObjectId)
    /\ Truthy(change.objectId)

\* The last iteration was an 'add' that fetched its content.
AddFetched == LastWas("add") /\ Truthy(change.objectId)

\* The lines of a text, read off the positions of its line breaks: line k
\* is what stands between break k-1 and break k, and a non-empty rest after
\* the last break is the last line.
BreakPositions(c) == {i \in 1..Len(c) : c[i] = "\n"}

BreakAt(c, k) ==
    IF k = 0 THEN 0
    ELSE IF k > Cardinality(BreakPositions(c)) THEN Len(c) + 1
    ELSE CHOOSE i \in BreakPositions(c) :
            Cardinality({j \in BreakPositions(c) : j <= i}) = k

LineCount(c) ==
    Cardinality(BreakPositions(c))
    + (IF c # <<>> /\ c[Len(c)] # "\n" THEN 1 ELSE 0)

LinesOf(c) ==
    [k \in 1..LineCount(c) |-> SubSeq(c, BreakAt(c, k - 1) + 1, BreakAt(c, k) - 1)]

\* C1: in the returned dictionary every entry of files has a non-empty
\* added_lines list and total is the number of entries of files, whatever
\* the changeset and the fetch outcomes were.
C1_FilesNonEmptyTotalLen ==
    /\ \A i \in 1..Len(files_with_additions) :
          files_with_additions[i].added_lines # <<>>
    /\ result.value = "dict" =>
          /\ result.files = files_with_additions
          /\ \A i \in 1..Len(result.files) : result.files[i].added_lines # <<>>
          /\ result.total = Len(result.files)

\* Witness of C1: a dictionary was returned after one file was listed and
\* another, without added lines, was left out.
C1_Witness ==
    /\ result.value = "dict"
    /\ result.total = 1
    /\ Len(processed) = 2
    /\ \E k \in 1..2 : ~processed[k].isFolder /\ processed[k].added_lines = <<>>

\* C2 (as claimed): an 'edit' whose before-content was fetched and is empty
\* and whose after-content was fetched has the lines of the after-content,
\* in order, as its added lines.
C2_EmptyBeforeAddsAllOfAfter ==
    (EditFetched /\ content_before = <<>> /\ content_after # None)
       => file_info.added_lines = LinesOf(content_after)

\* C3 (as claimed): when lines_after is lines_before with lines inserted
\* that do not occur in lines_before, the added lines are the inserted
\* lines in their order in lines_after.
IsInsertionOnly(before, after) ==
    SelectSeq(after, LAMBDA l : l \in Range(before)) = before

InsertedLines(before, after) ==
    SelectSeq(after, LAMBDA l : l \notin Range(before))

C3_InsertionsAreTheAddedLines ==
    (pc = "edit_done" /\ IsInsertionOnly(lines_before, lines_after))
       => file_info.added_lines = InsertedLines(lines_before, lines_after)

\* C4: an 'edit' whose two fetched contents are identical produces no added
\* lines and its file is not listed in files.
C4_IdenticalEditAddsNothing ==
    (EditFetched /\ content_before # None /\ content_before = content_after)
       => /\ file_info.added_lines = <<>>
          /\ change.path \notin PathsOf(files_with_additions)

\* Witness of C4: an identical edit of several lines went through the differ.
C4_Witness ==
    /\ EditFetched
    /\ content_before = content_after
    /\ Len(lines_before) >= 2
    /\ lines_before = LinesOf(content_before)
    /\ Len(diff) = Len(lines_before)

\* C5: for distinct lines a and b the edit from [a, b] to [b, a] has exactly
\* one added line, a or b.
C5_SwapAddsOneLine ==
    \A a \in LineTexts, b \in LineTexts :
       (a # b /\ pc = "edit_done" /\ lines_before = <<a, b>> /\ lines_after = <<b, a>>)
          => file_info.added_lines \in {<<a>>, <<b>>}

\* Witness of C5: a swapped pair was compared.
C5_Witness ==
    /\ pc = "edit_done"
    /\ lines_before = <<(<<"a">>), (<<"b">>)>>
    /\ lines_after = <<(<<"b">>), (<<"a">>)>>
    /\ Len(file_info.added_lines) = 1

\* C6: a 'delete' change never has added lines and never is listed; after
\* an 'add' file with added lines and a 'delete' file, files holds the added
\* file alone and total is 1.
C6_DeleteNeverListed ==
    /\ \A i \in 1..Len(files_with_additions) :
          files_with_additions[i].changeType # "delete"
    /\ \A k \in 1..Len(processed) :
          processed[k].changeType = "delete" => processed[k].added_lines = <<>>
    /\ LastWas("delete") => file_info.added_lines = <<>>
    /\ (/\ result.value = "dict"
        /\ Len(processed) = 2
        /\ ~processed[1].isFolder
        /\ processed[1].changeType = "add"
        /\ processed[1].added_lines # <<>>
        /\ processed[2].changeType = "delete")
       => /\ result.files = <<[path |-> 1, changeType |-> "add",
                               added_lines |-> processed[1].added_lines]>>
          /\ result.total = 1

\* Witness of C6: the add file with two lines, then a delete file whose
\* item carries object ids, and the dictionary returned.
C6_Witness ==
    /\ result.value = "dict"
    /\ Len(processed) = 2
    /\ processed[1].changeType = "add"
    /\ Len(processed[1].added_lines) = 2
    /\ LastWas("delete")
    /\ Truthy(change.objectId)
    /\ Truthy(change.originalObjectId)
    /\ result.total = 1

\* C7: an 'add' whose content was fetched has the lines of that content, in
\* order, as added_lines; when the content could not be fetched added_lines
\* is empty, the file is left out and the method goes on to return.
C7_AddTakesWholeContent ==
    /\ (AddFetched /\ content # None) => file_info.added_lines = LinesOf(content)
    /\ (LastWas("add") /\ (~Truthy(change.objectId) \/ content = None))
          => /\ file_info.added_lines = <<>>
             /\ change.path \notin PathsOf(files_with_additions)
             /\ pc \in {"for_change", "returned"}
             /\ pc = "returned" => result.value = "dict"

\* Witness of C7: a fetched add of two lines is listed.
C7_Witness ==
    /\ AddFetched
    /\ content # None
    /\ Len(file_info.added_lines) = 2
    /\ change.path \in PathsOf(files_with_additions)

\* C8: a failed content fetch leaves out that file only: every iterated
\* file is listed exactly when it has added lines, with those lines, and the
\* method returns the dictionary.
C8_FetchFailureLeavesOutOneFile ==
    /\ \A k \in 1..Len(processed) :
          /\ processed[k].fetch_failed => processed[k].added_lines = <<>>
          /\ (k \in PathsOf(files_with_additions)) <=> (processed[k].added_lines # <<>>)
          /\ \A i \in 1..Len(files_with_additions) :
                files_with_additions[i].path = k
                   => files_with_additions[i].added_lines = processed[k].added_lines
    /\ (\E k \in 1..Len(processed) : processed[k].fetch_failed)
          => /\ pc \in {"for_change", "returned"}
             /\ pc = "returned" => /\ result.value = "dict"
                                   /\ result.files = files_with_additions

\* Witness of C8: the first file's fetch failed, the second file is listed
\* and the dictionary was returned.
C8_Witness ==
    /\ Len(processed) = 2
    /\ processed[1].fetch_failed
    /\ processed[2].added_lines # <<>>
    /\ result.value = "dict"
    /\ result.total = 1

\* C9: files lists its entries in the order of the changeset listing, each
\* listing entry at most once, and never an entry flagged as a folder.
C9_ListingOrderNoFolders ==
    /\ \A i \in 1..Len(files_with_additions), j \in 1..Len(files_with_additions) :
          i < j => files_with_additions[i].path < files_with_additions[j].path
    /\ \A i \in 1..Len(files_with_additions) :
          LET k == files_with_additions[i].path
          IN  /\ k \in 1..Len(processed)
              /\ ~processed[k].isFolder
              /\ files_with_additions[i].changeType = processed[k].changeType

\* Witness of C9: two files are listed.
C9_Witness ==
    /\ Len(files_with_additions) = 2
    /\ files_with_additions[1].path = 1
    /\ files_with_additions[2].path = 2

\* --------------------------------------------- properties of the workflow
\* The program has ended: run() returned, or __main__ caught an exception.
RunEnded == run_pc \in {"done", "critical_error"}

\* C10 (as claimed): when generation is requested and no text-generation
\* provider is usable, the program still carries out the data-fetch stages
\* (the issue stage and the pull request stage) before it ends.
C10_NoProviderStillFetches ==
    (RunEnded /\ NeedsAnalyzer(config) /\ SelectProvider(env) = "None")
       => /\ "2. BUSCANDO PULL REQUEST" \in messages
          /\ {"1. SEM ISSUE DO JIRA", "1. BUSCANDO ISSUE DO JIRA"} \cap messages # {}

\* run() got past the pull request stage.
PrFetched == pr_files = "dict" /\ run_pc \in {"documentation", "code_review", "summary", "done"}

\* Step 3 was enabled, is over and gave no documentation.
DocumentationFailed ==
    /\ PrFetched
    /\ run_pc \in {"code_review", "summary", "done"}
    /\ config.generate_documentation
    /\ documentation = "None"

\* Step 4 was enabled, is over and gave no review.
CodeReviewFailed ==
    /\ PrFetched
    /\ run_pc \in {"summary", "done"}
    /\ config.generate_code_review
    /\ code_review # "text"

\* C11: after a failed documentation step an enabled review step is still
\* entered and run() ends by returning True; after a failed review step a
\* generated documentation is still held, its saved file is still on disk
\* and the final report lists it.
C11_FailureOfOneArtifactSparesTheOther ==
    /\ (DocumentationFailed /\ run_pc \in {"summary", "done"}
           /\ config.generate_code_review)
          => "4. GERANDO CODE REVIEW COM IA" \in messages
    /\ (DocumentationFailed /\ run_pc = "done") => run_result = "True"
    /\ (CodeReviewFailed /\ config.generate_documentation
           /\ "[OK] Documentacao gerada com sucesso!" \in messages
           /\ "Erro ao gerar documentacao" \notin messages)
          => /\ documentation = "text"
             /\ "Documentacao salva em DOCUMENTATION.md" \in messages
                   => disk["DOCUMENTATION.md"] = "written"
             /\ run_pc = "done"
                   => /\ run_result = "True"
                      /\ "Ficheiros gerados: DOCUMENTATION.md" \in messages

\* Witness of C11: the documentation call raised, the review was generated
\* afterwards and run() returned True.
C11_Witness ==
    /\ DocumentationFailed
    /\ "[ERRO] Erro ao gerar documentacao" \in messages
    /\ Len(ai_calls) = 2
    /\ code_review = "text"
    /\ run_pc = "done"
    /\ run_result = "True"

\* fetch_pr_data failed on the commits or on the changeset.
PrFetchFailed ==
    {"Erro ao buscar commits", "Erro ao buscar ficheiros do PR"} \cap messages # {}

\* C12: once the fetch of the commits or of the changeset has failed, run()
\* is over and returned False, neither generation step was entered and no
\* text-generation call was made.
C12_PrFetchFailureAbortsRun ==
    PrFetchFailed
       => /\ run_pc = "done"
          /\ run_result = "False"
          /\ ai_calls = <<>>
          /\ "3. GERANDO DOCUMENTACAO COM IA" \notin messages
          /\ "4. GERANDO CODE REVIEW COM IA" \notin messages
          /\ documentation = "None"
          /\ code_review = "None"

\* Witness of C12: the commits were fetched, the changeset was not, with
\* both generation steps requested and a provider at hand.
C12_Witness ==
    /\ "Erro ao buscar ficheiros do PR" \in messages
    /\ disk["pr_commits.json"] = "written"
    /\ config.generate_documentation
    /\ config.generate_code_review
    /\ provider # "None"
    /\ run_result = "False"

\* The issue of a configured key could not be fetched.
IssueFetchFailed ==
    /\ Truthy(config.issue_key)
    /\ "Erro ao buscar issue" \in messages

\* C13: after a failed issue fetch run() goes on to the pull request stage
\* and, with the pull request data fetched, enters every enabled generation
\* step and returns True.
C13_IssueFetchFailureIsNotFatal ==
    IssueFetchFailed
       => /\ run_pc # "critical_error"
          /\ issue_data = "None"
          /\ run_pc \notin {"fetch_issue", "fetch_pr"}
                => "2. BUSCANDO PULL REQUEST" \in messages
          /\ run_pc = "done" => (run_result = "True" <=> PrFetched)
          /\ (PrFetched /\ run_pc \in {"code_review", "summary", "done"}
                 /\ config.generate_documentation)
                => "3. GERANDO DOCUMENTACAO COM IA" \in messages
          /\ (PrFetched /\ run_pc \in {"summary", "done"}
                 /\ config.generate_code_review)
                => "4. GERANDO CODE REVIEW COM IA" \in messages

\* Witness of C13: the issue fetch failed and run() ended with both
\* artifacts generated.
C13_Witness ==
    /\ IssueFetchFailed
    /\ run_pc = "done"
    /\ run_result = "True"
    /\ documentation = "text"
    /\ code_review = "text"
    /\ disk["issue_data.json"] = "absent"

\* The messages that report a failed documentation, and a failed review.
DocumentationFailureMessages ==
    {"Erro ao gerar documentacao", "[ERRO] Erro ao gerar documentacao",
     "[ERRO] Erro ao salvar documentacao"}

CodeReviewFailureMessages ==
    {"Erro ao gerar code review", "[ERRO] Erro ao gerar code review",
     "[ERRO] Nenhum ficheiro de dados encontrado",
     "[ERRO] Erro ao salvar code review"}

\* C14 (as claimed): when run() has returned True, each requested artifact
\* is listed in the final report or a failure message was printed for it.
C14_NoArtifactDroppedSilently ==
    (run_pc = "done" /\ run_result = "True")
       => /\ config.generate_documentation
                => \/ "Ficheiros gerados: DOCUMENTATION.md" \in messages
                   \/ DocumentationFailureMessages \cap messages # {}
          /\ config.generate_code_review
                => \/ "Ficheiros gerados: CODE_REVIEW.md" \in messages
                   \/ CodeReviewFailureMessages \cap messages # {}

\* ------------------------------------------- properties of the formatter
\* The numbers of the nodes of a document that carry a text, in document
\* order.
TextNodes(doc) == SelectSeq([i \in 1..Len(doc) |-> i], LAMBDA i : doc[i].kind = "text")

\* C16: the flattened text of a document is the texts of its text-carrying
\* nodes in document order, a node's own text before those below it, one
\* line break between consecutive texts and none elsewhere, at every depth;
\* the example document gives A, line break, B.
C16_FlattenIsDocumentOrderJoin ==
    fmt_pc = "adf_done"
       => LET nodes == TextNodes(adf_doc)
          IN  /\ text_parts = [k \in 1..Len(nodes) |-> adf_doc[nodes[k]].text]
              /\ Len(adf_text) = IF nodes = <<>> THEN 0 ELSE 2 * Len(nodes) - 1
              /\ \A k \in 1..Len(nodes) : <<adf_text[2 * k - 1]>> = adf_doc[nodes[k]].text
              /\ \A k \in 1..(Len(nodes) - 1) : adf_text[2 * k] = "\n"
              /\ adf_doc = ExampleAdf => adf_text = <<"A", "\n", "B">>

\* Witness of C16: a text node with a text node below it and a text node
\* after it, three levels deep, was flattened.
C16_Witness ==
    /\ fmt_pc = "adf_done"
    /\ Len(adf_doc) = 5
    /\ adf_doc[2].kind = "text"
    /\ adf_doc[2].content = <<3>>
    /\ adf_doc[3].kind = "list"
    /\ adf_doc[3].content = <<4>>
    /\ adf_doc[4].kind = "text"
    /\ adf_doc[5].kind = "text"
    /\ adf_doc[1].content = <<2, 5>>
    /\ adf_text = <<"B", "\n", "D", "\n", "E">>

\* The number of newline-delimited segments of a content, 0 for an absent
\* or empty one: one more than its line breaks.
SegmentCount(c) ==
    IF c = <<>> THEN 0 ELSE Cardinality({i \in 1..Len(c) : c[i] = "\n"}) + 1

\* format_file_contents has run.
FileContentsFormatted == fmt_pc \in {"metadata", "done"}

\* C15 (as claimed): every formatted file entry has the segment counts of
\* its two contents as lines_before and lines_after, and the difference of
\* the two counts, without its sign, as lines_changed, whatever its change
\* type.
C15_LinesChangedIsNetChange ==
    FileContentsFormatted
       => \A k \in 1..Len(formatted_data.file_contents) :
             LET e == formatted_data.file_contents[k]
             IN  /\ e.lines_before = SegmentCount(e.content_before)
                 /\ e.lines_after = SegmentCount(e.content_after)
                 /\ e.lines_changed = Abs(e.lines_after - e.lines_before)

\* format_jira_issue has run.
JiraIssueFormatted == fmt_pc \notin {"idle", "load_all_data", "format_jira_issue"}

\* C17: without issue data format_jira_issue gives None and raises nothing,
\* and generate_formatted_output goes on to return the record with the
\* pull request, one entry per commit, one entry per file and the metadata.
C17_AbsentIssueIsNoError ==
    (JiraIssueFormatted /\ ~TruthyJson(self_issue_data))
       => /\ fmt_pc # "raised"
          /\ formatted_data.jira_issue = Null
          /\ fmt_pc = "done"
                => /\ formatted_data.pull_request = format_pr_data(self_pr_data)
                   /\ TruthyJson(self_pr_commits)
                         => Len(formatted_data.commits) = Len(self_pr_commits.value)
                   /\ TruthyJson(self_pr_files_content)
                         => Len(formatted_data.file_contents)
                               = Len(self_pr_files_content.files)
                   /\ formatted_data.metadata # Null

\* Witness of C17: the record was returned without an issue, with the pull
\* request, a commit and two files.
C17_Witness ==
    /\ fmt_pc = "done"
    /\ self_issue_data = Null
    /\ formatted_data.jira_issue = Null
    /\ formatted_data.pull_request # Null
    /\ Len(formatted_data.commits) = 1
    /\ Len(formatted_data.file_contents) = 2

\* format_commits has run.
CommitsFormatted ==
    fmt_pc \in {"format_file_changes", "format_file_contents", "metadata", "done"}

\* C18: format_commits gives one entry per commit, in the order of the
\* commits, and the commit_id of each is the first ShortIdLen characters of
\* the commit's identifier, all of it when it has fewer.
C18_ShortIdIsPrefixOfEight ==
    (CommitsFormatted /\ TruthyJson(self_pr_commits))
       => /\ Len(formatted_data.commits) = Len(self_pr_commits.value)
          /\ \A k \in 1..Len(formatted_data.commits) :
                LET id == CommitIdOf(self_pr_commits.value[k])
                    short == formatted_data.commits[k].commit_id
                IN  /\ Len(id) >= ShortIdLen => Len(short) = ShortIdLen
                    /\ Len(id) < ShortIdLen => short = id
                    /\ \A j \in 1..Len(short) : short[j] = id[j]

\* Witness of C18: a ten-character identifier and then a three-character
\* one were formatted.
C18_Witness ==
    /\ CommitsFormatted
    /\ TruthyJson(self_pr_commits)
    /\ Len(self_pr_commits.value) = 2
    /\ Len(self_pr_commits.value[1].commitId) = 10
    /\ formatted_data.commits[1].commit_id = <<"0", "1", "2", "3", "4", "5", "6", "7">>
    /\ formatted_data.commits[2].commit_id = <<"1", "2", "3">>

\* ------------------------------------------------ properties of the prompts
\* The built-in instruction texts of the two tasks.
BuiltInInstructions ==
    {DocumentationPrompt({}).instructions, DocumentationPrompt({}).task,
     CodeReviewPrompt({}).instructions, CodeReviewPrompt({}).task}

\* The calls made for the documentation (max_tokens 8000) and for the
\* review (max_tokens 6000).
CallsFor(max_tokens) == {k \in 1..Len(ai_calls) : ai_calls[k].max_tokens = max_tokens}

\* The prompt p is the override followed by the data section and nothing
\* else.
IsOverridePrompt(p, override) ==
    /\ p.instructions = override[1]
    /\ p.payload = load_json_files(disk)
    /\ p.task = ""
    /\ {p.instructions, p.header, p.task} \cap BuiltInInstructions = {}

\* C19: the prompt submitted for a task with an instruction override is the
\* override followed by the serialized data, with none of the built-in
\* instructions; without an override it is the task's built-in prompt.
C19_OverrideReplacesBuiltInInstructions ==
    /\ \A k \in CallsFor(8000) :
          IF Truthy(config.documentation_prompt)
          THEN IsOverridePrompt(ai_calls[k].prompt, config.documentation_prompt)
          ELSE ai_calls[k].prompt = DocumentationPrompt(load_json_files(disk))
    /\ \A k \in CallsFor(6000) :
          IF Truthy(config.code_review_prompt)
          THEN IsOverridePrompt(ai_calls[k].prompt, config.code_review_prompt)
          ELSE ai_calls[k].prompt = CodeReviewPrompt(load_json_files(disk))

\* Witness of C19: a documentation call with the built-in prompt and a
\* review call with an override were made.
C19_Witness ==
    /\ Len(ai_calls) = 2
    /\ ~Truthy(config.documentation_prompt)
    /\ Truthy(config.code_review_prompt)
    /\ ai_calls[1].max_tokens = 8000
    /\ ai_calls[2].prompt.instructions = "custom code review prompt"
    /\ ai_calls[2].prompt.payload # {}

RECURSIVE LcsLength(_, _, _, _)
LcsLength(a, b, i, j) ==
    IF i > Len(a) \/ j > Len(b) THEN 0
    ELSE IF a[i] = b[j] THEN 1 + LcsLength(a, b, i + 1, j + 1)
    ELSE LET skip_a == LcsLength(a, b, i + 1, j)
             skip_b == LcsLength(a, b, i, j + 1)
         IN  IF skip_a >= skip_b THEN skip_a ELSE skip_b

\* C21 (as claimed): the number of added lines of an edit is the number of
\* lines of after less the length of a longest common subsequence of before
\* and after.
C21_AddedCountIsLenMinusLcs ==
    pc = "edit_done"
       => Len(file_info.added_lines)
             = Len(lines_after) - LcsLength(lines_before, lines_after, 1, 1)

\* s is a subsequence of t: its lines occur in t in the same order.
RECURSIVE IsSubsequenceFrom(_, _, _, _)
IsSubsequenceFrom(s, t, i, j) ==
    IF i > Len(s) THEN TRUE
    ELSE IF j > Len(t) THEN FALSE
    ELSE IF s[i] = t[j] THEN IsSubsequenceFrom(s, t, i + 1, j + 1)
    ELSE IsSubsequenceFrom(s, t, i, j + 1)

IsSubsequence(s, t) == IsSubsequenceFrom(s, t, 1, 1)

\* The lines of after at the positions marked, and at those not marked.
Marked(after, mark) == SelectSeq([k \in 1..Len(after) |-> k], LAMBDA k : mark[k])

LinesAt(after, positions) == [k \in 1..Len(positions) |-> after[positions[k]]]

Unmarked(after, mark) == SelectSeq([k \in 1..Len(after) |-> k], LAMBDA k : ~mark[k])

\* How often the line l occurs in the line sequence s.
Occurrences(s, l) == Cardinality({k \in 1..Len(s) : s[k] = l})

\* C22: the added lines of an edit are the lines of after at some of its
\* positions, in after's order, and the lines at the other positions are, in
\* order, a subsequence of before; so a line occurring n times in after and
\* m < n times in before is added at least n - m times.
C22_AddedAndKeptAreSubsequences ==
    pc = "edit_done"
       => /\ \E mark \in [1..Len(lines_after) -> BOOLEAN] :
                /\ file_info.added_lines = LinesAt(lines_after, Marked(lines_after, mark))
                /\ IsSubsequence(LinesAt(lines_after, Unmarked(lines_after, mark)),
                                 lines_before)
          /\ \A l \in LineTexts :
                Occurrences(file_info.added_lines, l)
                   >= Occurrences(lines_after, l) - Occurrences(lines_before, l)

\* Witness of C22: a line occurring once in before and twice in after, with
\* a new line between the two occurrences, was compared.
C22_Witness ==
    /\ pc = "edit_done"
    /\ lines_before = <<(<<"a">>)>>
    /\ lines_after = <<(<<"a">>), (<<"b">>), (<<"a">>)>>
    /\ file_info.added_lines = <<(<<"b">>), (<<"a">>)>>

\* ------------------------------------------- properties of runs in sequence
\* C23 (as claimed): every file serialized into a prompt of a run was
\* written by that run, and the prompt of a run that has no issue data (no
\* issue key, or a failed issue fetch) holds no issue file.
C23_PromptHoldsOnlyDataOfThisRun ==
    \A k \in 1..Len(ai_calls) :
       \A file \in ai_calls[k].prompt.payload :
          /\ file[2] # "stale"
          /\ issue_data = "None" => file[1] # "issue_data.json"

\* ------------------------------------------ properties of AIAnalyzer.__init__
\* The backends in the order of preference, and the ones that can be used:
\* a key that is set and not the placeholder with a client that could be
\* built, or an Ollama server that answered 200.
BackendOrder == <<"claude", "openai", "ollama">>

Usable(e, k) == e[BackendOrder[k]] = "ok"

AnalyzerBuilt == run_pc # "main" /\ NeedsAnalyzer(config)

\* C24: construction of the AIAnalyzer fails exactly when no backend is
\* usable; otherwise the provider is set, to the first usable backend in
\* the order claude, openai, ollama, and stays so for the whole run.
C24_FirstUsableBackendIsSelected ==
    AnalyzerBuilt
       => /\ run_pc = "critical_error" <=> \A k \in 1..Len(BackendOrder) : ~Usable(env, k)
          /\ run_pc # "critical_error"
                => \E k \in 1..Len(BackendOrder) :
                      /\ provider = BackendOrder[k]
                      /\ Usable(env, k)
                      /\ \A j \in 1..(k - 1) : ~Usable(env, j)

\* Witness of C24: the Claude client could not be built while both OpenAI
\* and Ollama are usable, and the analyzer was built on OpenAI.
C24_Witness ==
    /\ AnalyzerBuilt
    /\ env.claude = "init_error"
    /\ env.openai = "ok"
    /\ env.ollama = "ok"
    /\ provider = "openai"
    /\ run_pc = "done"

\* ----------------------------------------- properties of format_jira_issue
\* The entry of the formatted issue that holds the optional field n, and the
\* default of that entry.
EntryOf(issue, n) ==
    IF n = "issuetype" THEN issue.type
    ELSE IF n = "status" THEN issue.status
    ELSE IF n = "priority" THEN issue.priority
    ELSE IF n = "assignee" THEN issue.assignee
    ELSE issue.reporter

DefaultOf(n) == IF n \in {"assignee", "reporter"} THEN "N/A" ELSE ""

OptionalFieldsOf(issue) == IF issue.has_fields THEN issue.fields.nested
                           ELSE NoFields.nested

\* C25 (as claimed): for a present issue format_jira_issue raises nothing,
\* whichever optional fields are missing or null, and gives each missing or
\* null field its default: 'N/A' for assignee and reporter, '' for issue
\* type, status and priority.
C25_MissingOrNullFieldsGetDefaults ==
    (JiraIssueFormatted /\ TruthyJson(self_issue_data))
       => /\ formatted_data.jira_issue # Null
          /\ \A n \in NestedNames :
                OptionalFieldsOf(self_issue_data)[n] \in {"absent", "null"}
                   => EntryOf(formatted_data.jira_issue, n) = DefaultOf(n)

====
